---- MODULE Spec2Model ----
(***************************************************************************)
(* A model of the PostgreSQL MCP server of this repository.  The           *)
(* repository holds two entry points that register the same four request   *)
(* handlers: the top-level index.ts (src/unnamed/part_000, the one the     *)
(* README documents) and src/index.ts.  The variable `program` says which  *)
(* of the two is running; every handler is modelled for both.              *)
(*                                                                         *)
(* SQL texts, table names and URIs are sequences of one-character strings, *)
(* so that trim, toLowerCase, startsWith, the regular expressions and the  *)
(* URL parser are computed character by character.                         *)
(***************************************************************************)
EXTENDS Naturals, Sequences, FiniteSets

VARIABLES
    program,          \* "root" (index.ts = part_000) or "src" (src/index.ts)
    envWriteOps,      \* process.env.DANGEROUSLY_ALLOW_WRITE_OPS ("" = unset)
    ALLOW_WRITE_OPS,  \* the write-allow flag derived from it at startup
    transport,        \* "Disconnected" until main() has connected the server;
                      \* then "Connected" (waiting for a request) or
                      \* "Responding" (a handler has produced its result)
    request,          \* the request being answered (the last one handled)
    db,               \* what the database does during that request
    dbCalls,          \* the statements the handler sent to the database
    path,             \* the branch of the handler that produced the response
    classified,       \* what the handler's classifier said of the SQL text
    response          \* the handler's result: a returned value or a thrown error

vars == <<program, envWriteOps, ALLOW_WRITE_OPS, transport, request, db,
          dbCalls, path, classified, response>>

----------------------------------------------------------------------------
(* Bounds of the model. *)

\* Longest run of blanks put in front of a generated SQL text.
MaxLead == 2

\* Most tables the catalog holds during one request.
MaxTables == 2

----------------------------------------------------------------------------
(* Characters and the string primitives of the JavaScript runtime. *)

UpperCase ==
    <<"A","B","C","D","E","F","G","H","I","J","K","L","M","N","O","P","Q","R",
      "S","T","U","V","W","X","Y","Z">>

LowerCase ==
    <<"a","b","c","d","e","f","g","h","i","j","k","l","m","n","o","p","q","r",
      "s","t","u","v","w","x","y","z">>

\* The characters \s and String.prototype.trim treat as white space.
WhiteSpace == {" ", "\t", "\n", "\r"}

\* The characters the regular-expression dot does not match.
LineTerminators == {"\n", "\r"}

toLowerCaseChar(c) ==
    IF \E i \in 1..26 : UpperCase[i] = c
    THEN LowerCase[CHOOSE i \in 1..26 : UpperCase[i] = c]
    ELSE c

toLowerCase(s) == [i \in 1..Len(s) |-> toLowerCaseChar(s[i])]

RECURSIVE trimStart(_)
trimStart(s) ==
    IF s # <<>> /\ Head(s) \in WhiteSpace THEN trimStart(Tail(s)) ELSE s

RECURSIVE trimEnd(_)
trimEnd(s) ==
    IF s # <<>> /\ s[Len(s)] \in WhiteSpace
    THEN trimEnd(SubSeq(s, 1, Len(s) - 1))
    ELSE s

trim(s) == trimEnd(trimStart(s))

startsWith(s, prefix) ==
    /\ Len(s) >= Len(prefix)
    /\ SubSeq(s, 1, Len(prefix)) = prefix

----------------------------------------------------------------------------
(* The statement classifiers. *)

writeKeywords ==
    { <<"I","N","S","E","R","T">>, <<"U","P","D","A","T","E">>,
      <<"D","E","L","E","T","E">>, <<"C","R","E","A","T","E">>,
      <<"D","R","O","P">>, <<"A","L","T","E","R">>,
      <<"T","R","U","N","C","A","T","E">>, <<"R","E","P","L","A","C","E">> }

\* /^\s*(INSERT|...|REPLACE)\s/i .test(s): k blanks, a keyword in any letter
\* case, then one white-space character.
writeKeywordsTest(s) ==
    \E kw \in writeKeywords : \E k \in 0..Len(s) :
        /\ \A i \in 1..k : s[i] \in WhiteSpace
        /\ Len(s) >= k + Len(kw) + 1
        /\ toLowerCase(SubSeq(s, k + 1, k + Len(kw))) = toLowerCase(kw)
        /\ s[k + Len(kw) + 1] \in WhiteSpace

\* A faulty variant: the regular expression applied to the untrimmed query.
isWriteOperationUntrimmed(query) == writeKeywordsTest(query)

isWriteOperation(query) == writeKeywordsTest(trim(query))

SelectWord == <<"s","e","l","e","c","t">>
WithWord == <<"w","i","t","h">>

isReadonly(queryText) ==
    \/ startsWith(toLowerCase(trim(queryText)), SelectWord)
    \/ startsWith(toLowerCase(trim(queryText)), WithWord)

----------------------------------------------------------------------------
(* Startup configuration. *)

\* Values the environment may give DANGEROUSLY_ALLOW_WRITE_OPS ("" = unset).
EnvValues == {"true", "1", "TRUE", ""}

\* process.env.DANGEROUSLY_ALLOW_WRITE_OPS === "true" || ... === "1"
ParseAllowWriteOps(value) == value = "true" \/ value = "1"

Programs == {"root", "src"}

----------------------------------------------------------------------------
(* Messages, responses and database calls. *)

\* A message built from a template literal: the template, the character
\* sequence interpolated into it (a table name or URI) and the plain string
\* interpolated into it (a tool name or an inner error's message).
Msg(template, chars, str) == [template |-> template, chars |-> chars, str |-> str]

NoMsg == Msg("", <<>>, "")

\* error.message of an error raised by the database driver.
DbErrorMessage == "database error message"

\* A handler's normal result.  isError = FALSE stands for an absent flag.
Returned(content, isError, resources, contents, tools) ==
    [outcome |-> "returned", content |-> content, isError |-> isError,
     error |-> NoMsg, resources |-> resources, contents |-> contents,
     tools |-> tools]

\* A handler that threw: the request fails with this error.
Thrown(error) ==
    [outcome |-> "thrown", content |-> <<>>, isError |-> FALSE,
     error |-> error, resources |-> <<>>, contents |-> <<>>, tools |-> <<>>]

TextContent(text) == <<[type |-> "text", text |-> text]>>

\* One statement sent to the database and whether the database ran it.
DbCall(op, text, limit, ok) == [op |-> op, text |-> text, limit |-> limit, ok |-> ok]

Handled(resp, calls, branch) ==
    [response |-> resp, dbCalls |-> calls, path |-> branch, classified |-> "none"]

----------------------------------------------------------------------------
(* The "query" tool: list-tools and call-tool. *)

\* The name of the required string field of the tool's input schema.
RequiredField(prog) == IF prog = "root" THEN "query" ELSE "sql"

ToolDescription(prog, allow) ==
    IF prog = "root"
    THEN IF allow
         THEN "Execute a SQL query (read or write operations allowed)"
         ELSE "Execute a read-only SQL query (SELECT statements only)"
    ELSE "Execute a PostgreSQL query. By default, only SELECT queries are allowed unless write ops are enabled."

ListToolsHandler(prog, allow) ==
    Handled(Returned(<<>>, FALSE, <<>>, <<>>,
                     <<[name |-> "query",
                        description |-> ToolDescription(prog, allow),
                        required |-> <<RequiredField(prog)>>]>>),
            <<>>, "ok")

\* A faulty variant: the field declared z.any(), so any value passes.
SchemaParseOkAnyType(prog, arguments) == arguments.field = RequiredField(prog)

\* z.object({ <field>: z.string() }).parse(arguments): succeeds exactly when
\* the required field is present and is a string.
SchemaParseOk(prog, arguments) ==
    /\ arguments.field = RequiredField(prog)
    /\ arguments.isString

\* The classification each program makes of a statement: root by the
\* write keywords, src by the read keywords.
classify(prog, sqlText) ==
    IF prog = "root"
    THEN IF isWriteOperation(sqlText) THEN "Write" ELSE "ReadOnly"
    ELSE IF isReadonly(sqlText) THEN "ReadOnly" ELSE "Write"

\* The write gate: TRUE when the statement must not reach sql.unsafe.
WriteGateBlocks(prog, allow, queryText) ==
    IF prog = "root"
    THEN classify(prog, queryText) = "Write" /\ ~allow
    ELSE ~allow /\ classify(prog, queryText) = "Write"

\* root classifies every statement it is given; src only with the flag off.
Classifies(prog, allow) == prog = "root" \/ ~allow

BlockedResult(prog) ==
    IF prog = "root"
    THEN Returned(TextContent(Msg("Error: Write operations are not allowed. Set DANGEROUSLY_ALLOW_WRITE_OPS=true to enable write operations.", <<>>, "")),
                  FALSE, <<>>, <<>>, <<>>)
    ELSE Returned(TextContent(Msg("Error: Only SELECT queries are allowed. Set DANGEROUSLY_ALLOW_WRITE_OPS=true to enable write operations.", <<>>, "")),
                  TRUE, <<>>, <<>>, <<>>)

QueryFailedResult(prog) ==
    IF prog = "root"
    THEN Returned(TextContent(Msg("Error executing query: ${error.message}", <<>>, DbErrorMessage)),
                  FALSE, <<>>, <<>>, <<>>)
    ELSE Returned(TextContent(Msg("Query error: ${error.message}", <<>>, DbErrorMessage)),
                  TRUE, <<>>, <<>>, <<>>)

QuerySucceededResult ==
    Returned(TextContent(Msg("JSON.stringify(result, null, 2)", <<>>, "")),
             FALSE, <<>>, <<>>, <<>>)

UnknownToolError(prog, name) ==
    IF prog = "root"
    THEN Msg("Unknown tool: ${request.params.name}", <<>>, name)
    ELSE Msg("Tool not found: ${request.params.name}", <<>>, name)

ZodError == Msg("ZodError", <<>>, "")

\* The handler once the arguments have passed the schema.
QueryToolHandler(prog, allow, queryText, d) ==
    IF WriteGateBlocks(prog, allow, queryText)
    THEN Handled(BlockedResult(prog), <<>>, "blockedWrite")
    ELSE IF d.queryOk
    THEN Handled(QuerySucceededResult,
                 <<DbCall("unsafe", queryText, 0, TRUE)>>, "ok")
    ELSE Handled(QueryFailedResult(prog),
                 <<DbCall("unsafe", queryText, 0, FALSE)>>, "queryFailure")

CallToolHandler(prog, allow, name, arguments, d) ==
    IF name # "query"
    THEN Handled(Thrown(UnknownToolError(prog, name)), <<>>, "unknownTool")
    ELSE IF ~SchemaParseOk(prog, arguments)
    THEN Handled(Thrown(ZodError), <<>>, "invalidArguments")
    ELSE [QueryToolHandler(prog, allow, arguments.value, d) EXCEPT
            !.classified = IF Classifies(prog, allow)
                           THEN classify(prog, arguments.value) ELSE "none"]

----------------------------------------------------------------------------
(* The catalog: the tables the database holds. *)

\* The table names of the model, in the order ORDER BY table_name gives.
\* One holds a blank and one a line break: a quoted identifier may.
TableNames ==
    << <<"a","\n","b">>, <<"a"," ","b">>, <<"o","r","d","e","r","s">>,
       <<"u","s","e","r","s">> >>

\* Every list of at most MaxTables distinct tables, by index into TableNames.
IndexLists ==
    UNION { { l \in [1..n -> 1..Len(TableNames)] :
                \A i, j \in 1..n : i # j => l[i] # l[j] } : n \in 0..MaxTables }

IsSorted(l) == \A i, j \in 1..Len(l) : i < j => l[i] < l[j]

\* What the metadata query can return: root asks ORDER BY table_name, src
\* gives no order.
Catalogs(prog) ==
    { [i \in 1..Len(l) |-> TableNames[l[i]]] :
        l \in { m \in IndexLists : prog = "src" \/ IsSorted(m) } }

Includes(list, x) == \E i \in 1..Len(list) : list[i] = x

\* Rows of the sample query (first 100 rows in root, first 10 in src).
RootSampleLimit == 100
SrcSampleLimit == 10

----------------------------------------------------------------------------
(* Resource URIs. *)

RootUriPrefix == <<"t","a","b","l","e",":","/","/","/">>
SrcUriPrefix == <<"p","o","s","t","g","r","e","s",":","/","/","t","a","b","l","e","/">>
SrcPathPrefix == <<"/","t","a","b","l","e","/">>
PostgresProtocol == <<"p","o","s","t","g","r","e","s",":">>

\* `table:///${table}` in root, `postgres://table/${table.table_name}` in src.
ResourceUri(prog, table) ==
    IF prog = "root" THEN RootUriPrefix \o table ELSE SrcUriPrefix \o table

ResourceDescriptor(prog, table) ==
    [uri |-> ResourceUri(prog, table),
     name |-> IF prog = "root" THEN table
              ELSE <<"T","a","b","l","e",":"," ">> \o table,
     mimeType |-> "application/json"]

\* uri.match(/^table:\/\/\/(.+)$/): the prefix, then one or more characters
\* none of which is a line terminator, up to the end of the string.
RootUriMatches(uri) ==
    /\ startsWith(uri, RootUriPrefix)
    /\ Len(uri) > Len(RootUriPrefix)
    /\ \A i \in (Len(RootUriPrefix) + 1)..Len(uri) : uri[i] \notin LineTerminators

\* match[1]
RootUriTable(uri) == SubSeq(uri, Len(RootUriPrefix) + 1, Len(uri))

(* new URL(uri), for the URIs of the model: the parser drops tabs and line  *)
(* breaks, reads the scheme up to the first ":", takes what follows "//" up *)
(* to the next "/", "?" or "#" as the host, and the rest up to "?" or "#"   *)
(* as the path, percent-encoding a blank in it.  A string with no scheme is *)
(* a TypeError.                                                            *)
RECURSIVE StripTabsAndNewlines(_)
StripTabsAndNewlines(s) ==
    IF s = <<>> THEN <<>>
    ELSE IF Head(s) \in {"\t", "\n", "\r"} THEN StripTabsAndNewlines(Tail(s))
    ELSE <<Head(s)>> \o StripTabsAndNewlines(Tail(s))

\* The position of the first character of s that is in set, or Len(s) + 1.
FirstIn(s, set) ==
    IF \E i \in 1..Len(s) : s[i] \in set
    THEN CHOOSE i \in 1..Len(s) : s[i] \in set /\ \A j \in 1..(i - 1) : s[j] \notin set
    ELSE Len(s) + 1

IsAsciiAlpha(c) == \E i \in 1..26 : UpperCase[i] = c \/ LowerCase[i] = c

RECURSIVE PercentEncodePath(_)
PercentEncodePath(s) ==
    IF s = <<>> THEN <<>>
    ELSE IF Head(s) = " " THEN <<"%","2","0">> \o PercentEncodePath(Tail(s))
    ELSE <<Head(s)>> \o PercentEncodePath(Tail(s))

UrlParse(uri) ==
    LET input  == StripTabsAndNewlines(trim(uri))
        colon  == FirstIn(input, {":"})
        scheme == SubSeq(input, 1, colon - 1)
        rest   == SubSeq(input, colon + 1, Len(input))
        valid  == /\ colon <= Len(input)
                  /\ colon > 1
                  /\ \A i \in 1..Len(scheme) : IsAsciiAlpha(scheme[i])
        hasAuthority == startsWith(rest, <<"/","/">>)
        afterSlashes == IF hasAuthority THEN SubSeq(rest, 3, Len(rest)) ELSE rest
        hostEnd == IF hasAuthority THEN FirstIn(afterSlashes, {"/", "?", "#"}) ELSE 1
        fromPath == SubSeq(afterSlashes, hostEnd, Len(afterSlashes))
        rawPath == SubSeq(fromPath, 1, FirstIn(fromPath, {"?", "#"}) - 1)
    IN  IF ~valid
        THEN [ok |-> FALSE, protocol |-> <<>>, host |-> <<>>, pathname |-> <<>>]
        ELSE [ok |-> TRUE,
              protocol |-> toLowerCase(scheme) \o <<":">>,
              host |-> SubSeq(afterSlashes, 1, hostEnd - 1),
              pathname |-> PercentEncodePath(rawPath)]

\* url.pathname.replace(/^\/table\//, "")
SrcUriTable(uri) ==
    LET pathname == UrlParse(uri).pathname
    IN  IF startsWith(pathname, SrcPathPrefix)
        THEN SubSeq(pathname, Len(SrcPathPrefix) + 1, Len(pathname))
        ELSE pathname

\* The table name the read-resource handler extracts from a URI it accepts.
UriTable(prog, uri) == IF prog = "root" THEN RootUriTable(uri) ELSE SrcUriTable(uri)

\* Whether the read-resource handler accepts the URI's shape.
UriAccepted(prog, uri) ==
    IF prog = "root" THEN RootUriMatches(uri)
    ELSE UrlParse(uri).ok /\ UrlParse(uri).protocol = PostgresProtocol

----------------------------------------------------------------------------
(* Resources: list-resources and read-resource. *)

GetTablesCall(ok) == DbCall("getTables", <<>>, 0, ok)

ListResourcesHandler(prog, d) ==
    IF d.catalogOk
    THEN Handled(Returned(<<>>, FALSE,
                          [i \in 1..Len(d.tables) |-> ResourceDescriptor(prog, d.tables[i])],
                          <<>>, <<>>),
                 <<GetTablesCall(TRUE)>>, "ok")
    ELSE IF prog = "root"
    THEN \* catch: console.error, return { resources: [] }
         Handled(Returned(<<>>, FALSE, <<>>, <<>>, <<>>),
                 <<GetTablesCall(FALSE)>>, "catalogFailure")
    ELSE \* no catch: the driver's error fails the request
         Handled(Thrown(Msg("${error.message}", <<>>, DbErrorMessage)),
                 <<GetTablesCall(FALSE)>>, "catalogFailure")

ResourceContents(uri) == <<[uri |-> uri, mimeType |-> "application/json"]>>

\* root: every error raised inside the try block is rethrown wrapped.
ReadingTableError(tableName, inner) ==
    Msg("Error reading table ${tableName}: ${error.message}", tableName, inner)

TableNotFoundMessage == "Table not found: ${tableName}"

RootReadResourceHandler(uri, d) ==
    IF ~RootUriMatches(uri)
    THEN Handled(Thrown(Msg("Invalid resource URI: ${uri}", uri, "")), <<>>, "invalidURI")
    ELSE LET tableName == RootUriTable(uri)
             sample == DbCall("sample", tableName, RootSampleLimit, d.queryOk)
         IN  IF ~d.catalogOk
             THEN Handled(Thrown(ReadingTableError(tableName, DbErrorMessage)),
                          <<GetTablesCall(FALSE)>>, "catalogFailure")
             ELSE IF ~Includes(d.tables, tableName)
             THEN Handled(Thrown(ReadingTableError(tableName, TableNotFoundMessage)),
                          <<GetTablesCall(TRUE)>>, "tableNotFound")
             ELSE IF ~d.queryOk
             THEN Handled(Thrown(ReadingTableError(tableName, DbErrorMessage)),
                          <<GetTablesCall(TRUE), sample>>, "queryFailure")
             ELSE Handled(Returned(<<>>, FALSE, <<>>, ResourceContents(uri), <<>>),
                          <<GetTablesCall(TRUE), sample>>, "ok")

\* src: no existence check; the column query and then the sample query are
\* sent for whatever name the URI gave, and the database rejects the sample
\* query of a table it does not hold.
SrcReadResourceHandler(uri, d) ==
    IF ~UrlParse(uri).ok
    THEN Handled(Thrown(Msg("TypeError: Invalid URL", uri, "")), <<>>, "invalidURI")
    ELSE IF UrlParse(uri).protocol # PostgresProtocol
    THEN Handled(Thrown(Msg("Unsupported protocol: ${url.protocol}",
                            UrlParse(uri).protocol, "")), <<>>, "invalidURI")
    ELSE LET tableName == SrcUriTable(uri)
             exists == Includes(d.tables, tableName)
             columns == DbCall("columns", tableName, 0, d.catalogOk)
             sample == DbCall("sample", tableName, SrcSampleLimit, d.queryOk /\ exists)
         IN  IF ~d.catalogOk
             THEN Handled(Thrown(Msg("${error.message}", <<>>, DbErrorMessage)),
                          <<columns>>, "catalogFailure")
             ELSE IF ~exists
             THEN Handled(Thrown(Msg("${error.message}", <<>>, DbErrorMessage)),
                          <<columns, sample>>, "tableNotFound")
             ELSE IF ~d.queryOk
             THEN Handled(Thrown(Msg("${error.message}", <<>>, DbErrorMessage)),
                          <<columns, sample>>, "queryFailure")
             ELSE Handled(Returned(<<>>, FALSE, <<>>, ResourceContents(uri), <<>>),
                          <<columns, sample>>, "ok")

ReadResourceHandler(prog, uri, d) ==
    IF prog = "root" THEN RootReadResourceHandler(uri, d)
    ELSE SrcReadResourceHandler(uri, d)

----------------------------------------------------------------------------
(* The requests a client may send. *)

Blanks(n) == [i \in 1..n |-> " "]

\* First words of the generated SQL texts: the eight write keywords, other
\* letter cases of two of them, read keywords, another verb, and none.
Heads ==
    writeKeywords \cup
    { <<"d","e","l","e","t","e">>, <<"D","r","o","p">>,
      <<"S","E","L","E","C","T">>, <<"s","e","l","e","c","t">>,
      <<"w","i","t","h">>, <<"G","R","A","N","T">>, <<>> }

\* What follows the first word: nothing, white space, a comment, a letter.
Separators == { <<>>, <<" ">>, <<"\n">>, <<"/","*","*","/">>, <<"d">> }

Tails ==
    { <<>>, <<"F","R","O","M"," ","t">>, <<"f","r","o","m"," ","t">>,
      <<"*"," ","F","R","O","M"," ","t">>, <<"T","A","B","L","E"," ","t">>,
      <<"c","t","e"," ","a","s"," ","(",".",".",".",")"," ","s","e","l","e","c","t"," ","1">> }

Trailers == { <<>>, <<" ">> }

SqlTexts ==
    { Blanks(n) \o h \o s \o t \o e :
        n \in 0..MaxLead, h \in Heads, s \in Separators, t \in Tails, e \in Trailers }

NoArguments == [field |-> "", isString |-> FALSE, value |-> <<>>]

\* request.params.arguments: one field, "sql" or "query", holding a string or
\* a value that is no string; or no field at all.
ArgumentValues ==
    { [field |-> f, isString |-> TRUE, value |-> t] : f \in {"sql", "query"}, t \in SqlTexts }
    \cup { [field |-> f, isString |-> FALSE, value |-> <<>>] : f \in {"sql", "query"} }
    \cup { NoArguments }

ToolNames == {"query", "other"}

Uris ==
    { ResourceUri(p, TableNames[i]) : p \in Programs, i \in 1..Len(TableNames) }
    \cup { <<"g","a","r","b","a","g","e">>,
           <<"t","a","b","l","e",":","/","/","u","s","e","r","s">>,
           <<"h","t","t","p",":","/","/","t","a","b","l","e","/","u","s","e","r","s">>,
           <<"p","o","s","t","g","r","e","s",":","/","/","t","a","b","l","e","/",
             "t","a","b","l","e","/","u","s","e","r","s">> }

Request(kind, name, arguments, uri) ==
    [kind |-> kind, name |-> name, arguments |-> arguments, uri |-> uri]

Database(catalogOk, queryOk, tables) ==
    [catalogOk |-> catalogOk, queryOk |-> queryOk, tables |-> tables]

----------------------------------------------------------------------------
(* The state machine. *)

Init ==
    /\ program \in Programs
    /\ envWriteOps \in EnvValues
    /\ ALLOW_WRITE_OPS = ParseAllowWriteOps(envWriteOps)
    /\ transport = "Disconnected"
    /\ request = Request("none", "", NoArguments, <<>>)
    /\ db = Database(TRUE, TRUE, <<>>)
    /\ dbCalls = <<>>
    /\ path = "none"
    /\ classified = "none"
    /\ response = Returned(<<>>, FALSE, <<>>, <<>>, <<>>)

\* main(): server.connect(transport)
Connect ==
    /\ transport = "Disconnected"
    /\ transport' = "Connected"
    /\ UNCHANGED <<program, envWriteOps, ALLOW_WRITE_OPS, request, db, dbCalls,
                   path, classified, response>>

\* A handler runs to its result; the protocol layer then sends it (Reply).
Answer(req, d, handled) ==
    /\ transport' = "Responding"
    /\ request' = req
    /\ db' = d
    /\ dbCalls' = handled.dbCalls
    /\ path' = handled.path
    /\ classified' = handled.classified
    /\ response' = handled.response
    /\ UNCHANGED <<program, envWriteOps, ALLOW_WRITE_OPS>>

\* The response is sent; nothing of the request outlives it.
Reply ==
    /\ transport = "Responding"
    /\ transport' = "Connected"
    /\ request' = Request("none", "", NoArguments, <<>>)
    /\ db' = Database(TRUE, TRUE, <<>>)
    /\ dbCalls' = <<>>
    /\ path' = "none"
    /\ classified' = "none"
    /\ response' = Returned(<<>>, FALSE, <<>>, <<>>, <<>>)
    /\ UNCHANGED <<program, envWriteOps, ALLOW_WRITE_OPS>>

ListTools ==
    /\ transport = "Connected"
    /\ Answer(Request("listTools", "", NoArguments, <<>>),
              Database(TRUE, TRUE, <<>>),
              ListToolsHandler(program, ALLOW_WRITE_OPS))

CallTool ==
    /\ transport = "Connected"
    /\ \E name \in ToolNames, arguments \in ArgumentValues, queryOk \in BOOLEAN :
         LET d == Database(TRUE, queryOk, <<>>)
         IN  Answer(Request("callTool", name, arguments, <<>>), d,
                    CallToolHandler(program, ALLOW_WRITE_OPS, name, arguments, d))

ListResources ==
    /\ transport = "Connected"
    /\ \E catalogOk \in BOOLEAN, tables \in Catalogs(program) :
         LET d == Database(catalogOk, TRUE, tables)
         IN  Answer(Request("listResources", "", NoArguments, <<>>), d,
                    ListResourcesHandler(program, d))

ReadResource ==
    /\ transport = "Connected"
    /\ \E uri \in Uris, catalogOk \in BOOLEAN, queryOk \in BOOLEAN,
          tables \in Catalogs(program) :
         LET d == Database(catalogOk, queryOk, tables)
         IN  Answer(Request("readResource", "", NoArguments, uri), d,
                    ReadResourceHandler(program, uri, d))

Next ==
    \/ Connect
    \/ ListTools
    \/ CallTool
    \/ ListResources
    \/ ReadResource
    \/ Reply

Spec == Init /\ [][Next]_vars

----------------------------------------------------------------------------
(* What the claims speak of. *)

IsQueryCall == request.kind = "callTool" /\ request.name = "query"

\* The request reached the classifier with a string in the required field.
CarriesSql ==
    /\ request.arguments.field = RequiredField(program)
    /\ request.arguments.isString

UnsafeCalls == { i \in 1..Len(dbCalls) : dbCalls[i].op = "unsafe" }
SampleCalls == { i \in 1..Len(dbCalls) : dbCalls[i].op = "sample" }

\* The response carries an isError-flagged content block with a message.
ErrorFlaggedContent ==
    /\ response.outcome = "returned"
    /\ response.isError
    /\ Len(response.content) > 0
    /\ response.content[1].text.template # ""

\* The text begins, after leading white space and in any letter case, with
\* the word.
BeginsWith(text, word) == startsWith(toLowerCase(trimStart(text)), toLowerCase(word))

\* The trimmed text begins with a write keyword, in any letter case.
BeginsWithWriteKeyword(text) ==
    \E kw \in writeKeywords : startsWith(toLowerCase(trim(text)), toLowerCase(kw))

\* The trimmed text begins with a write keyword, in any letter case, and a
\* white-space character follows the keyword.
BeginsWithWriteKeywordAndSpace(text) ==
    \E kw \in writeKeywords :
        LET t == toLowerCase(trim(text))
        IN  /\ startsWith(t, toLowerCase(kw))
            /\ Len(t) > Len(kw)
            /\ t[Len(kw) + 1] \in WhiteSpace

----------------------------------------------------------------------------
(* The claims. *)

\* C1: with the write-allow flag false, a "query" call whose SQL is classified
\* Write returns content with isError = true and never calls sql.unsafe.
C1_BlockedWriteIsFlagged ==
    (IsQueryCall /\ CarriesSql /\ ~ALLOW_WRITE_OPS /\ classified = "Write")
        => /\ response.outcome = "returned"
           /\ Len(response.content) > 0
           /\ response.isError
           /\ UnsafeCalls = {}

\* C2: in read-only mode every statement the query tool passes to the
\* database begins, after leading white space and in any letter case, with
\* SELECT.
C2_OnlySelectReachesDatabase ==
    ~ALLOW_WRITE_OPS =>
        \A i \in UnsafeCalls : BeginsWith(dbCalls[i].text, SelectWord)

\* C3: when the database raises an error while running the statement of a
\* "query" call, the handler returns (does not throw) a result with
\* isError = true whose text contains the database's error message.
C3_QueryErrorIsFlagged ==
    (IsQueryCall /\ \E i \in UnsafeCalls : ~dbCalls[i].ok)
        => /\ response.outcome = "returned"
           /\ response.isError
           /\ Len(response.content) > 0
           /\ response.content[1].text.str = DbErrorMessage

\* C4: a read-resource request whose URI names a table the catalog does not
\* list fails with a NotFound error and the sample query is never sent.
C4_ValidationPrecedesSample ==
    (/\ request.kind = "readResource"
     /\ UriAccepted(program, request.uri)
     /\ db.catalogOk
     /\ ~Includes(db.tables, UriTable(program, request.uri)))
        => /\ response.outcome = "thrown"
           /\ response.error.str = TableNotFoundMessage
           /\ SampleCalls = {}

\* C5: for a non-empty catalog, list-resources returns one descriptor per
\* table, in order, and the read-resource handler's URI parsing recovers table
\* name i from the URI of descriptor i.
C5_UrisRoundTrip ==
    (request.kind = "listResources" /\ db.catalogOk /\ db.tables # <<>>)
        => /\ Len(response.resources) = Len(db.tables)
           /\ \A i \in 1..Len(response.resources) :
                /\ UriAccepted(program, response.resources[i].uri)
                /\ UriTable(program, response.resources[i].uri) = db.tables[i]

\* C6: the description of the "query" tool that list-tools returns differs
\* from the one it returns with the write-allow flag set the other way.
C6_DescriptionFollowsPolicy ==
    request.kind = "listTools"
        => /\ Len(response.tools) = 1
           /\ response.tools[1].description
                # ListToolsHandler(program, ~ALLOW_WRITE_OPS).response.tools[1].description

\* C7: when the catalog query fails during list-resources, the handler
\* returns an empty sequence of resources instead of failing the request.
C7_ListingDegrades ==
    (request.kind = "listResources" /\ ~db.catalogOk)
        => /\ response.outcome = "returned"
           /\ response.resources = <<>>

\* C8: no failure path ends in a response indistinguishable from a success:
\* each ends in a thrown error or in isError-flagged content with a message.
C8_NoErrorSwallowed ==
    path \notin {"none", "ok"}
        => \/ response.outcome = "thrown" /\ response.error.template # ""
           \/ ErrorFlaggedContent

\* C9: a call-tool request whose name is not "query", or whose arguments lack
\* the required string field, fails with a thrown error (UnknownTool, else
\* InvalidArguments), returns no content and never calls sql.unsafe, whatever
\* the write-allow flag.
C9_ValidationErrorsThrow ==
    (request.kind = "callTool" /\ (request.name # "query" \/ ~CarriesSql))
        => /\ response.outcome = "thrown"
           /\ response.content = <<>>
           /\ UnsafeCalls = {}
           /\ response.error.template =
                IF request.name # "query"
                THEN IF program = "root" THEN "Unknown tool: ${request.params.name}"
                     ELSE "Tool not found: ${request.params.name}"
                ELSE "ZodError"

\* C9 witness: a "query" call whose required field holds no string was thrown.
C9_Witness ==
    /\ IsQueryCall
    /\ request.arguments.field = RequiredField(program)
    /\ ~request.arguments.isString
    /\ response.outcome = "thrown"

ExampleSelect == <<"S","E","L","E","C","T"," ","*"," ","F","R","O","M"," ","t">>
ExampleWith ==
    <<" "," ","w","i","t","h"," ","c","t","e"," ","a","s"," ","(",".",".",".",")",
      " ","s","e","l","e","c","t"," ","1">>
ExampleDeleteUpper == <<"D","E","L","E","T","E"," ","F","R","O","M"," ","t">>
ExampleDeleteLower == <<"d","e","l","e","t","e"," ","f","r","o","m"," ","t">>

====
